---------------------------- MODULE Spec2Model ----------------------------
(***************************************************************************)
(* Verification model of cpp.react's turn machinery:                       *)
(*   - ExclusiveTurnManager / ExclusiveTurn (turn serialization, merging)  *)
(*   - TurnBase::QueueForDetach                                            *)
(*   - EventSourceNode::AddInput / ApplyInput                              *)
(*                                                                         *)
(* A thread owns at most one ExclusiveTurn at a time (the turn is a local  *)
(* of the transaction), so a turn object is named by its owning thread;    *)
(* a later turn of the same thread reuses the name, as it reuses the       *)
(* stack slot.  0 is the null pointer / "no thread".                       *)
(*                                                                         *)
(* The critical sections of TryMerge and StartTurn are single actions:     *)
(* everything they write is read by other threads only under seqMutex_ or  *)
(* after being woken.  EndTurn is split into its steps, because the        *)
(* threads it wakes run on without taking seqMutex_.                       *)
(***************************************************************************)
EXTENDS Naturals, Integers, Sequences, FiniteSets, TLC

\* ------------------------------------------------------------------ bounds
NumThreads == 4          \* threads submitting transactions
MaxOps     == 4          \* transactions begun in one behaviour
NumFairThreads == 3      \* the same two, where progress is checked
MaxFairOps == 3
NumSubmitters == 3       \* threads submitting at once in the input-merge scenario
MaxClosures == 2         \* closures merged into one turn, where their effect is followed
MaxAdds == 2             \* AddInput calls of one closure
NumWorkers == 2          \* engine threads that queue observers on one turn
MaxQueued == 2           \* QueueForDetach calls of one worker
MaxTurns == 3            \* turns a node is followed over
MaxCalls == 3            \* AddInput and ApplyInput calls on a source in one turn
MaxGraphTurns == 2       \* turns a graph of event nodes is followed over
MaxEngineTurns == 2      \* turns an engine propagates
NumOpNodes == 3          \* EventOpNodes created and destroyed

VARIABLES
    pc,             \* [thread -> position in its transaction]
    seqMutex,       \* seqMutex_: the thread holding it, or 0
    tail,           \* tail_: the tail turn, or 0
    isMergeable,    \* ExclusiveTurn::isMergeable_
    successor,      \* ExclusiveTurn::successor_ (0 = nullptr)
    merged,         \* ExclusiveTurn::merged_: sequence of [func, caller]
    blocked,        \* ExclusiveTurn::blockCondition_ (blocked_ flag)
    callerBlocked,  \* the local BlockingCondition caller of TryMerge
    idx,            \* position of the range-for in RunMergedInputs / UnblockSuccessors
    flags,          \* flags argument of an async transaction (TRUE = enable_input_merging)
    budget,         \* transactions that may still be begun in this behaviour
    \* ---- history (never read by the program's actions)
    nAdmit,         \* StartTurn critical sections passed so far
    nExec,          \* StartTurn calls that have returned so far
    ticket,         \* [thread -> admission number of its turn]
    startNo,        \* [thread -> order in which its turn began executing]
    pred,           \* [thread -> the tail its turn was appended to, or 0]
    runs,           \* [thread -> times the closure of its transaction in progress ran]
    ranLog,         \* [thread -> closures RunMergedInputs ran in its turn, in order]
    \* ---- event sources and the closures that stage their input
    body,           \* [thread -> the AddInput calls its closure makes: sequence of [src, val]]
    nodes,          \* [source -> EventSourceNode state]
    refNodes,       \* the same sources, had one user closure made all the calls
    turnId,         \* TurnBase::id_ of the turn in progress
    applied,        \* the turn's ApplyInput calls have been made
    \* ---- TurnBase: the observers queued for detach
    qpc,                    \* [worker -> where it is in QueueForDetach]
    detachedObserversPtr,   \* the vector detachedObserversPtr_ owns; 0 is nullptr
    vecState,               \* [vector -> "none", "live" or "freed"]
    vecItems,               \* [vector -> the observers pushed on it]
    vref,                   \* [worker -> the vector it read from detachedObserversPtr_]
    qcalls,                 \* [worker -> QueueForDetach calls it has started]
    qobs,                   \* [worker -> the observer of its current call]
    queued,                 \* the observers whose QueueForDetach call has returned
    crashed,                \* the process died
    registry,               \* the observers registered in the domain
    unregCalls,             \* [observer -> Unregister calls made on it by detachObservers]
    finalized,              \* detachObservers has run for the turn
    \* ---- turn ids
    nextTurnId,             \* the id the domain gives to the next turn
    turnIdOf,               \* [thread -> Id() of its turn]
    execLog,                \* the ids of the turns that began to execute, in that order
    \* ---- one EventSourceNode over several turns
    sn,                     \* the node
    snTurn,                 \* Id() of the turn in progress
    snUsed,                 \* the turn ids used so far
    snPhase,                \* "input" while the turn stages and applies, then "propagate"
    snCalls,                \* AddInput and ApplyInput calls made in the turn
    sinceApply,             \* the values given to AddInput since ApplyInput last returned true
    lastCall,               \* the last call on the node, the node and sinceApply before it
    \* ---- a graph of event nodes over several turns
    shape,                  \* which graph it is
    gn,                     \* [node -> its state]
    gTurn,                  \* Id() of the turn in progress
    gPhase,                 \* "input" while the turn stages and applies, then "propagate"
    changed,                \* the sources whose ApplyInput returned true in the turn
    ticked,                 \* the nodes ticked in the turn
    lastTick,               \* the last Tick: its node, report, collected events, nodes before
    \* ---- the engine that propagates the turns of the graph
    engine,                 \* which engine the domain uses
    queue,                  \* toposort: the scheduled nodes
    batch,                  \* parallel toposort: the nodes of the batch not yet ticked
    pending,                \* pulse-count, subtree: [node -> pending_count]
    ready,                  \* pulse-count, subtree: the nodes dispatched to the workers
    tickLog,                \* the nodes ticked in the turn, in that order
    pulsed,                 \* the nodes that reported OnNodePulse in the turn
    refGn,                  \* the nodes, had sequential toposort run every turn
    refPulsed,              \* the nodes that pulsed in the turn under sequential toposort
    produced,               \* [node -> the events it produced in the turn: staged or collected]
    \* ---- the lives of EventOpNodes
    opLife                  \* [nodes: node -> life, wasOpStolen_, attached dependencies, Detach calls;
                            \*  failed: an assertion failed; last: the last operation]

tmVars == <<pc, seqMutex, tail, isMergeable, successor, merged, blocked,
            callerBlocked, idx, flags>>
histVars == <<budget, nAdmit, nExec, ticket, startNo, pred, runs, ranLog>>
srcVars == <<body, nodes, refNodes, turnId, applied>>
detVars == <<qpc, detachedObserversPtr, vecState, vecItems, vref, qcalls, qobs, queued,
             crashed, registry, unregCalls, finalized>>
idVars == <<nextTurnId, turnIdOf, execLog>>
snVars == <<sn, snTurn, snUsed, snPhase, snCalls, sinceApply, lastCall>>
grVars == <<shape, gn, gTurn, gPhase, changed, ticked, lastTick>>
enVars == <<engine, queue, batch, pending, ready, tickLog, pulsed, refGn, refPulsed,
            produced>>
exceptDetVars == <<tmVars, histVars, srcVars, idVars, snVars, grVars, enVars, opLife>>
exceptSrcVars == <<detVars, idVars, snVars, grVars, enVars, opLife>>
exceptIdVars == <<srcVars, detVars, snVars, grVars, enVars, opLife>>
exceptSnVars == <<tmVars, histVars, srcVars, detVars, idVars, grVars, enVars, opLife>>
exceptGrVars == <<tmVars, histVars, srcVars, detVars, idVars, snVars, enVars, opLife>>
exceptEnVars == <<tmVars, histVars, srcVars, detVars, idVars, snVars, opLife>>
exceptOpVars == <<tmVars, histVars, srcVars, detVars, idVars, snVars, grVars, enVars>>
otherVars == <<srcVars, detVars, idVars, snVars, grVars, enVars, opLife>>
vars == <<tmVars, histVars, otherVars>>

Thr == DOMAIN pc

\* the turn is admitted and its StartTurn has not returned
WaitPcs == {"st_wait"}
\* the executing phase: from StartTurn's return until EndTurn is called
ExecPcs == {"exec", "run_merged", "end"}
\* EndTurn has been called and holds seqMutex_
EndPcs == {"et_unblock", "et_tail"}

Executing(t) == pc[t] \in ExecPcs

\* ------------------------------------------------- BlockingCondition
\* react/common/Concurrency.h: a flag under its own mutex with a condition
\* variable.  Each operator gives the flag's value after the call.
Block(b)   == TRUE
Unblock(b) == FALSE
\* RunIfBlocked(func): runs func and returns true iff the flag is set
RunIfBlocked(b) == b
\* WaitForUnblock returns once the flag is clear
CanPassWait(b) == ~b

\* ------------------------------------------------- ExclusiveTurn
\* ExclusiveTurn(flags): the fields of a fresh turn of thread t
Construct(t, fl) ==
    /\ isMergeable' = [isMergeable EXCEPT ![t] = fl]
    /\ successor'   = [successor EXCEPT ![t] = 0]
    /\ merged'      = [merged EXCEPT ![t] = <<>>]
    /\ blocked'     = [blocked EXCEPT ![t] = FALSE]

\* mutant: Append links the successor and forgets to block it
TurnAppend_NoBlock(p, t) ==
    /\ successor' = [successor EXCEPT ![p] = t]
    /\ UNCHANGED blocked

\* Append(tr): successor_ = &tr; tr.blockCondition_.Block()   (this = turn p)
TurnAppend(p, t) ==
    /\ successor' = [successor EXCEPT ![p] = t]
    /\ blocked'   = [blocked EXCEPT ![t] = Block(blocked[t])]

\* mutant: TryMerge without the isMergeable_ test
TurnTryMerge_IgnoreFlag(p) == RunIfBlocked(blocked[p])

\* ExclusiveTurn::TryMerge on turn p: the value it returns
TurnTryMerge(p) ==
    IF ~isMergeable[p] THEN FALSE ELSE RunIfBlocked(blocked[p])

\* mutant: the lambda stores the closure and forgets caller.Block()
MergeBody_NoBlock(p, t) ==
    /\ UNCHANGED callerBlocked
    /\ merged' = [merged EXCEPT ![p] = Append(@, [func |-> t, caller |-> t])]

\* the lambda TryMerge hands to RunIfBlocked: caller.Block(); merged_.emplace_back(...)
MergeBody(p, t) ==
    /\ callerBlocked' = [callerBlocked EXCEPT ![t] = Block(callerBlocked[t])]
    /\ merged' = [merged EXCEPT ![p] = Append(@, [func |-> t, caller |-> t])]

\* mutant: RunMergedInputs walks merged_ backwards
MergedFuncs_Reversed(t) ==
    [i \in 1..Len(merged[t]) |-> merged[t][Len(merged[t]) + 1 - i].func]

\* RunMergedInputs: the closures it calls, in the order it calls them
MergedFuncs(t) == [i \in 1..Len(merged[t]) |-> merged[t][i].func]

\* mutant: UnblockSuccessors wakes the successor turn before the merged callers
WakeList_SuccessorFirst(t) ==
    (IF successor[t] # 0 THEN <<[kind |-> "turn", who |-> successor[t]]>> ELSE <<>>)
    \o [i \in 1..Len(merged[t]) |-> [kind |-> "caller", who |-> merged[t][i].caller]]

\* mutant: UnblockSuccessors wakes the merged callers and forgets the successor
WakeList_NoSuccessor(t) ==
    [i \in 1..Len(merged[t]) |-> [kind |-> "caller", who |-> merged[t][i].caller]]

\* UnblockSuccessors: the conditions it unblocks, in the order it unblocks them
WakeList(t) ==
    [i \in 1..Len(merged[t]) |-> [kind |-> "caller", who |-> merged[t][i].caller]]
    \o (IF successor[t] # 0 THEN <<[kind |-> "turn", who |-> successor[t]]>> ELSE <<>>)

\* ------------------------------------------------- transactions (DomainBase)
\* do_transaction(flags, closure): allocate the turn, then StartTurn
BeginSync(t, fl) ==
    /\ pc[t] = "idle"
    /\ budget > 0
    /\ pc' = [pc EXCEPT ![t] = "start"]
    /\ Construct(t, fl)
    /\ budget' = budget - 1
    /\ UNCHANGED <<seqMutex, tail, callerBlocked, idx, flags, nAdmit, nExec,
                   ticket, startNo, pred, runs, ranLog>>

\* async_transaction(flags, closure): TryMerge comes first
BeginAsync(t, fl) ==
    /\ pc[t] = "idle"
    /\ budget > 0
    /\ pc' = [pc EXCEPT ![t] = "try"]
    /\ flags' = [flags EXCEPT ![t] = fl]
    /\ budget' = budget - 1
    /\ UNCHANGED <<seqMutex, tail, isMergeable, successor, merged, blocked,
                   callerBlocked, idx, nAdmit, nExec, ticket, startNo, pred,
                   runs, ranLog>>

\* ------------------------------------------------- ExclusiveTurnManager
\* TryMerge, the seqMutex_ section.  On false the caller goes on to allocate
\* its own turn with the transaction's flags.
TryMerge(t) ==
    /\ pc[t] = "try"
    /\ seqMutex = 0
    /\ IF tail # 0 /\ TurnTryMerge(tail)
       THEN /\ MergeBody(tail, t)
            /\ pc' = [pc EXCEPT ![t] = "tm_wait"]
            /\ UNCHANGED <<isMergeable, successor, blocked>>
       ELSE /\ Construct(t, flags[t])
            /\ pc' = [pc EXCEPT ![t] = "start"]
            /\ UNCHANGED callerBlocked
    /\ flags' = [flags EXCEPT ![t] = FALSE]      \* the argument is dead from here on
    /\ UNCHANGED <<seqMutex, tail, idx, histVars>>

\* TryMerge: if (merged) caller.WaitForUnblock(); return merged
TryMergeWait(t) ==
    /\ pc[t] = "tm_wait"
    /\ CanPassWait(callerBlocked[t])
    /\ pc' = [pc EXCEPT ![t] = "idle"]
    /\ runs' = [runs EXCEPT ![t] = 0]
    /\ UNCHANGED <<seqMutex, tail, isMergeable, successor, merged, blocked,
                   callerBlocked, idx, flags, budget, nAdmit, nExec, ticket,
                   startNo, pred, ranLog>>

\* StartTurn, the seqMutex_ section
StartTurn(t) ==
    /\ pc[t] = "start"
    /\ seqMutex = 0
    /\ IF tail # 0 THEN TurnAppend(tail, t) ELSE UNCHANGED <<successor, blocked>>
    /\ tail' = t
    /\ pc' = [pc EXCEPT ![t] = "st_wait"]
    /\ nAdmit' = nAdmit + 1
    /\ ticket' = [ticket EXCEPT ![t] = nAdmit + 1]
    /\ pred' = [pred EXCEPT ![t] = tail]
    /\ UNCHANGED <<seqMutex, isMergeable, merged, callerBlocked, idx, flags,
                   budget, nExec, startNo, runs, ranLog>>

\* StartTurn: turn.WaitForUnblock(), and the return
StartTurnWait(t) ==
    /\ pc[t] = "st_wait"
    /\ CanPassWait(blocked[t])
    /\ pc' = [pc EXCEPT ![t] = "exec"]
    /\ nExec' = nExec + 1
    /\ startNo' = [startNo EXCEPT ![t] = nExec + 1]
    /\ UNCHANGED <<seqMutex, tail, isMergeable, successor, merged, blocked,
                   callerBlocked, idx, flags, budget, nAdmit, ticket, pred, runs,
                   ranLog>>

\* step 3 of do_transaction: the turn's own closure runs on the owning thread
UserClosure(t) ==
    /\ pc[t] = "exec"
    /\ pc' = [pc EXCEPT ![t] = "run_merged"]
    /\ idx' = [idx EXCEPT ![t] = 1]
    /\ runs' = [runs EXCEPT ![t] = @ + 1]
    /\ UNCHANGED <<seqMutex, tail, isMergeable, successor, merged, blocked,
                   callerBlocked, flags, budget, nAdmit, nExec, ticket, startNo,
                   pred, ranLog>>

\* RunMergedInputs: for (const auto& e : merged_) e.first();  one iteration,
\* or the loop's exit
RunMergedInputs(t) ==
    /\ pc[t] = "run_merged"
    /\ IF idx[t] <= Len(MergedFuncs(t))
       THEN LET f == MergedFuncs(t)[idx[t]] IN
            /\ runs' = [runs EXCEPT ![f] = @ + 1]
            /\ ranLog' = [ranLog EXCEPT ![t] = Append(@, f)]
            /\ idx' = [idx EXCEPT ![t] = @ + 1]
            /\ UNCHANGED pc
       ELSE /\ pc' = [pc EXCEPT ![t] = "end"]
            /\ UNCHANGED <<runs, ranLog, idx>>
    /\ UNCHANGED <<seqMutex, tail, isMergeable, successor, merged, blocked,
                   callerBlocked, flags, budget, nAdmit, nExec, ticket, startNo,
                   pred>>

\* EndTurn is called: SeqMutexT::scoped_lock lock(seqMutex_)
EndTurnLock(t) ==
    /\ pc[t] = "end"
    /\ seqMutex = 0
    /\ seqMutex' = t
    /\ pc' = [pc EXCEPT ![t] = "et_unblock"]
    /\ idx' = [idx EXCEPT ![t] = 1]
    /\ UNCHANGED <<tail, isMergeable, successor, merged, blocked, callerBlocked,
                   flags, histVars>>

\* turn.UnblockSuccessors(): one Unblock, or the end of the function
UnblockSuccessors(t) ==
    /\ pc[t] = "et_unblock"
    /\ IF idx[t] <= Len(WakeList(t))
       THEN LET w == WakeList(t)[idx[t]] IN
            /\ IF w.kind = "caller"
               THEN /\ callerBlocked' = [callerBlocked EXCEPT ![w.who] = Unblock(@)]
                    /\ UNCHANGED blocked
               ELSE /\ blocked' = [blocked EXCEPT ![w.who] = Unblock(@)]
                    /\ UNCHANGED callerBlocked
            /\ idx' = [idx EXCEPT ![t] = @ + 1]
            /\ UNCHANGED pc
       ELSE /\ pc' = [pc EXCEPT ![t] = "et_tail"]
            /\ UNCHANGED <<callerBlocked, blocked, idx>>
    /\ UNCHANGED <<seqMutex, tail, isMergeable, successor, merged, flags, histVars>>

\* mutant: EndTurn clears tail_ whatever it points to
TailAfterEnd_AlwaysClear(t) == 0

\* EndTurn: if (tail_ == &turn) tail_ = nullptr
TailAfterEnd(t) == IF tail = t THEN 0 ELSE tail

\* EndTurn's last statement and the release of seqMutex_; the transaction
\* returns and the turn object is destroyed
EndTurnTail(t) ==
    /\ pc[t] = "et_tail"
    /\ tail' = TailAfterEnd(t)
    /\ seqMutex' = 0
    /\ pc' = [pc EXCEPT ![t] = "idle"]
    /\ idx' = [idx EXCEPT ![t] = 0]
    /\ Construct(t, FALSE)
    /\ ticket' = [ticket EXCEPT ![t] = 0]
    /\ startNo' = [startNo EXCEPT ![t] = 0]
    /\ pred' = [pred EXCEPT ![t] = 0]
    /\ runs' = [runs EXCEPT ![t] = 0]
    /\ ranLog' = [ranLog EXCEPT ![t] = <<>>]
    /\ UNCHANGED <<callerBlocked, flags, budget, nAdmit, nExec>>

\* ------------------------------------------------- EventStreamNode / EventSourceNode
\* uint curTurnId_ = INT_MAX
INT_MAX == 2147483647

Sources == {"a", "b"}

\* a node as constructed: no events, changedFlag_ = false
FreshNode == [events |-> <<>>, changedFlag |-> FALSE, curTurnId |-> INT_MAX, reports |-> 0]

\* the node as an earlier turn left it: its input applied, its events not yet cleared
UsedNode(id) == [events |-> <<0>>, changedFlag |-> TRUE, curTurnId |-> id, reports |-> 0]

\* mutant: forceUpdate is ignored
SetCurrentTurn_NoForce(n, id, forceUpdate, noClear) ==
    IF n.curTurnId # id
    THEN [n EXCEPT !.curTurnId = id, !.events = IF noClear THEN @ ELSE <<>>]
    ELSE n

\* mutant: the events of the turn before are never cleared
SetCurrentTurn_KeepEvents(n, id, forceUpdate, noClear) ==
    IF n.curTurnId # id \/ forceUpdate
    THEN [n EXCEPT !.curTurnId = id]
    ELSE n

\* EventStreamNode::SetCurrentTurn(turn, forceUpdate, noClear)
SetCurrentTurn(n, id, forceUpdate, noClear) ==
    IF n.curTurnId # id \/ forceUpdate
    THEN [n EXCEPT !.curTurnId = id,
                   !.events = IF ~noClear THEN <<>> ELSE @]
    ELSE n

\* mutant: AddInput keeps the events of the previous turn
AddInput_NoClear(n, v) == [n EXCEPT !.changedFlag = FALSE, !.events = Append(@, v)]

\* EventSourceNode::AddInput(v)
AddInput(n, v) ==
    LET c == IF n.changedFlag
             THEN [n EXCEPT !.changedFlag = FALSE, !.events = <<>>]
             ELSE n
    IN  [c EXCEPT !.events = Append(@, v)]

\* mutant: ApplyInput without the changedFlag_ test
ApplyInputResult_IgnoreFlag(n) == Len(n.events) > 0

\* EventSourceNode::ApplyInput(turn): the value it returns
ApplyInputResult(n) == Len(n.events) > 0 /\ ~n.changedFlag

\* EventSourceNode::ApplyInput(turn): the node afterwards; reports counts the
\* Engine::OnTurnInputChange calls
ApplyInput(n, id) ==
    IF ApplyInputResult(n)
    THEN [SetCurrentTurn(n, id, TRUE, TRUE) EXCEPT !.changedFlag = TRUE,
                                                   !.reports = @ + 1]
    ELSE n

\* a closure runs: its AddInput calls, one after the other
RECURSIVE RunClosure(_, _)
RunClosure(ns, calls) ==
    IF calls = <<>> THEN ns
    ELSE RunClosure([ns EXCEPT ![Head(calls).src] = AddInput(@, Head(calls).val)],
                    Tail(calls))

\* no sources are followed: closures are opaque
SrcIdle ==
    /\ body = <<>>
    /\ nodes = <<>>
    /\ refNodes = <<>>
    /\ turnId = 0
    /\ applied = FALSE

\* ------------------------------------------------- EventMergeOp / EventFilterOp / EventTransformOp
\* TFilter filter_ and TFunc func_ of the ops: events are integers
Accept(e) == e % 2 = 0
Func(e) == e + 10

\* a dependency of an op is a node (NodeHolderT) or another op
NodeDep(n) == [kind |-> "node", node |-> n]
MergeOp(deps) == [kind |-> "merge", deps |-> deps]
FilterOp(dep) == [kind |-> "filter", dep |-> dep]
TransformOp(dep) == [kind |-> "transform", dep |-> dep]

\* A collector is the chain of FilteredEventCollector / TransformEventCollector
\* wrapped around the node's EventCollector, the stage applied first at the head.
\* collector(e): the events that reach EventCollector::operator() (push_back)
RECURSIVE Deliver(_, _)
Deliver(stages, e) ==
    IF stages = <<>> THEN <<e>>
    ELSE IF Head(stages) = "filter"
         THEN (IF Accept(e) THEN Deliver(Tail(stages), e) ELSE <<>>)
         ELSE Deliver(Tail(stages), Func(e))

\* for (const auto& v : depPtr->Events()) collector(v)
RECURSIVE DeliverAll(_, _)
DeliverAll(stages, evs) ==
    IF evs = <<>> THEN <<>>
    ELSE Deliver(stages, Head(evs)) \o DeliverAll(stages, Tail(evs))

\* collect / collectImpl on a node: depPtr->SetCurrentTurn(turn), then the loop.
\* st holds the nodes, the events pushed so far and how often each node was read
NodeCollect(n, turn, stages, st) ==
    LET d == SetCurrentTurn(st.ns[n], turn, FALSE, FALSE)
    IN  [ns |-> [st.ns EXCEPT ![n] = d],
         out |-> st.out \o DeliverAll(stages, d.events),
         reads |-> [st.reads EXCEPT ![n] = @ + 1]]

RECURSIVE OpCollect(_, _, _, _)
RECURSIVE OpCollectRec(_, _, _, _)
RECURSIVE MergeApply(_, _, _, _)

\* mutant: a nested op collects into the node's events directly, not through
\* the collector of the op around it
CollectImpl_Direct(dep, turn, stages, st) ==
    IF dep.kind = "node"
    THEN NodeCollect(dep.node, turn, stages, st)
    ELSE OpCollect(dep, turn, <<>>, st)

\* collectImpl(turn, collector, dep) of EventFilterOp and EventTransformOp
CollectImpl(dep, turn, stages, st) ==
    IF dep.kind = "node"
    THEN NodeCollect(dep.node, turn, stages, st)
    ELSE OpCollect(dep, turn, stages, st)

\* mutant: the merge visits its dependencies from last to first
MergeApply_Reversed(deps, turn, stages, st) ==
    IF deps = <<>> THEN st
    ELSE LET d == deps[Len(deps)] IN
         MergeApply(SubSeq(deps, 1, Len(deps) - 1), turn, stages,
                    IF d.kind = "node"
                    THEN NodeCollect(d.node, turn, stages, st)
                    ELSE OpCollectRec(d, turn, stages, st))

\* EventMergeOp: apply(CollectFunctor{turn, collector}, deps_), collect(dep) on
\* each dependency in declaration order
MergeApply(deps, turn, stages, st) ==
    IF deps = <<>> THEN st
    ELSE MergeApply(Tail(deps), turn, stages,
                    IF Head(deps).kind = "node"
                    THEN NodeCollect(Head(deps).node, turn, stages, st)
                    ELSE OpCollectRec(Head(deps), turn, stages, st))

\* Collect(turn, collector) of the three ops
OpCollect(op, turn, stages, st) ==
    CASE op.kind = "merge" -> MergeApply(op.deps, turn, stages, st)
      [] op.kind = "filter" -> CollectImpl(op.dep, turn, <<"filter">> \o stages, st)
      [] op.kind = "transform" -> CollectImpl(op.dep, turn, <<"transform">> \o stages, st)

\* CollectRec(functor) of the three ops: the merge applies the functor it was
\* given to its own dependencies, filter and transform call Collect with the
\* functor's turn and collector
OpCollectRec(op, turn, stages, st) ==
    CASE op.kind = "merge" -> MergeApply(op.deps, turn, stages, st)
      [] op.kind = "filter" -> OpCollect(op, turn, stages, st)
      [] op.kind = "transform" -> OpCollect(op, turn, stages, st)

\* the nodes an op reads, in the order it reads them
RECURSIVE Leaves(_)
RECURSIVE LeavesOf(_)
Leaves(op) ==
    CASE op.kind = "node" -> <<op.node>>
      [] op.kind = "merge" -> LeavesOf(op.deps)
      [] op.kind = "filter" -> Leaves(op.dep)
      [] op.kind = "transform" -> Leaves(op.dep)
LeavesOf(deps) == IF deps = <<>> THEN <<>> ELSE Leaves(Head(deps)) \o LeavesOf(Tail(deps))

\* ------------------------------------------------- EventOpNode
\* mutant: a Tick that collected nothing reports nothing to the engine
Tick_Silent(n, op, turn, ns) ==
    LET self == SetCurrentTurn(ns[n], turn, TRUE, FALSE)
        st0 == [ns |-> [ns EXCEPT ![n] = self],
                out |-> self.events,
                reads |-> [k \in DOMAIN ns |-> 0]]
        st == OpCollect(op, turn, <<>>, st0)
    IN  [ns |-> [st.ns EXCEPT ![n].events = st.out],
         report |-> IF st.out # <<>> THEN "pulse" ELSE "none",
         collected |-> SubSeq(st.out, Len(self.events) + 1, Len(st.out)),
         reads |-> st.reads]

\* Tick(turn) of the node n holding op: SetCurrentTurn(turn, true), then
\* op_.Collect(turn, EventCollector{Events()}), then OnNodePulse if events_ is
\* not empty, else OnNodeIdlePulse
Tick(n, op, turn, ns) ==
    LET self == SetCurrentTurn(ns[n], turn, TRUE, FALSE)
        st0 == [ns |-> [ns EXCEPT ![n] = self],
                out |-> self.events,
                reads |-> [k \in DOMAIN ns |-> 0]]
        st == OpCollect(op, turn, <<>>, st0)
    IN  [ns |-> [st.ns EXCEPT ![n].events = st.out],
         report |-> IF st.out # <<>> THEN "pulse" ELSE "idle",
         collected |-> SubSeq(st.out, Len(self.events) + 1, Len(st.out)),
         reads |-> st.reads]

\* no graph of event nodes is followed
NoTick == [node |-> "none", report |-> "none", collected |-> <<>>, reads |-> <<>>,
           again |-> FALSE, before |-> <<>>]

GrIdle ==
    /\ shape = "none"
    /\ gn = <<>>
    /\ gTurn = 0
    /\ gPhase = "idle"
    /\ changed = {}
    /\ ticked = {}
    /\ lastTick = NoTick

\* no EventOpNode is followed through its life
OpIdle == opLife = <<>>

\* no engine runs
EnIdle ==
    /\ engine = "none"
    /\ queue = {}
    /\ batch = {}
    /\ pending = <<>>
    /\ ready = {}
    /\ tickLog = <<>>
    /\ pulsed = {}
    /\ refGn = <<>>
    /\ refPulsed = {}
    /\ produced = <<>>

\* no single source is followed
SnIdle ==
    /\ sn = <<>>
    /\ snTurn = 0
    /\ snUsed = {}
    /\ snPhase = "none"
    /\ snCalls = 0
    /\ sinceApply = <<>>
    /\ lastCall = <<>>

\* no turn ids are followed
IdIdle ==
    /\ nextTurnId = 0
    /\ turnIdOf = <<>>
    /\ execLog = <<>>

\* ------------------------------------------------- TurnBase::QueueForDetach
\* Worker threads of the engine tick the nodes of one executing turn; observers
\* ticked on different workers queue themselves for detach on that turn.
Workers == 1..NumWorkers

\* the observers of the domain
Observers == {"o1", "o2", "o3"}

\* ObserverRegistry::Unregister(o): the registry afterwards
Unregister(reg, o) == reg \ {o}

\* the vectors the calls can allocate: a worker allocates at most once
VecIds == 1..NumWorkers

\* the vector not yet allocated by anyone
FreshVec == CHOOSE v \in VecIds : vecState[v] = "none" /\ \A u \in VecIds : vecState[u] = "none" => v <= u

\* a call starts on an observer ticked by the worker:
\* if (detachedObserversPtr_ == nullptr)
QCheck(w, o) ==
    /\ ~crashed
    /\ ~finalized
    /\ qpc[w] = "call"
    /\ qcalls[w] < MaxQueued
    /\ o \in registry
    /\ qobs' = [qobs EXCEPT ![w] = o]
    /\ qpc' = [qpc EXCEPT ![w] = IF detachedObserversPtr = 0 THEN "alloc" ELSE "load"]
    /\ qcalls' = [qcalls EXCEPT ![w] = @ + 1]
    /\ UNCHANGED <<detachedObserversPtr, vecState, vecItems, vref, queued, crashed,
                   registry, unregCalls, finalized>>

\* detachedObserversPtr_ = std::unique_ptr<ObsVectT>(new ObsVectT()): the new
\* vector replaces the one the pointer owned, which is destroyed
QAlloc(w) ==
    /\ ~crashed
    /\ qpc[w] = "alloc"
    /\ vecState' = [v \in VecIds |->
                       IF v = FreshVec THEN "live"
                       ELSE IF v = detachedObserversPtr THEN "freed"
                       ELSE vecState[v]]
    /\ detachedObserversPtr' = FreshVec
    /\ qpc' = [qpc EXCEPT ![w] = "load"]
    /\ UNCHANGED <<vecItems, vref, qcalls, qobs, queued, crashed,
                   registry, unregCalls, finalized>>

\* detachedObserversPtr_-> : the pointer is read
QLoad(w) ==
    /\ ~crashed
    /\ qpc[w] = "load"
    /\ vref' = [vref EXCEPT ![w] = detachedObserversPtr]
    /\ qpc' = [qpc EXCEPT ![w] = "push"]
    /\ UNCHANGED <<detachedObserversPtr, vecState, vecItems, qcalls, qobs, queued,
                   crashed, registry, unregCalls, finalized>>

\* push_back(&obs) on the vector that was read: concurrent_vector makes it atomic
QPush(w) ==
    /\ ~crashed
    /\ qpc[w] = "push"
    /\ vecState[vref[w]] = "live"
    /\ vecItems' = [vecItems EXCEPT ![vref[w]] = Append(@, qobs[w])]
    /\ queued' = queued \cup {qobs[w]}
    /\ qpc' = [qpc EXCEPT ![w] = "call"]
    /\ UNCHANGED <<detachedObserversPtr, vecState, vref, qcalls, qobs, crashed,
                   registry, unregCalls, finalized>>

\* push_back on a vector that has been destroyed meanwhile is undefined: the
\* write goes to freed memory and the call returns, or the process dies
QPushFreed(w) ==
    /\ ~crashed
    /\ qpc[w] = "push"
    /\ vecState[vref[w]] = "freed"
    /\ \/ /\ queued' = queued \cup {qobs[w]}
          /\ qpc' = [qpc EXCEPT ![w] = "call"]
          /\ UNCHANGED crashed
       \/ /\ crashed' = TRUE
          /\ UNCHANGED <<queued, qpc>>
    /\ UNCHANGED <<detachedObserversPtr, vecState, vecItems, vref, qcalls, qobs,
                   registry, unregCalls, finalized>>

\* detachObservers: the observers the turn unregisters when it is finalized
DetachList ==
    IF detachedObserversPtr = 0 THEN <<>> ELSE vecItems[detachedObserversPtr]

\* for (auto* o : *detachedObserversPtr_) registry.Unregister(o): the registry
\* after the loop
RECURSIVE UnregisterAll(_, _)
UnregisterAll(reg, list) ==
    IF list = <<>> THEN reg
    ELSE UnregisterAll(Unregister(reg, Head(list)), Tail(list))

\* the number of iterations of that loop made on observer o
UnregisterCalls(list, o) == Cardinality({i \in 1..Len(list) : list[i] = o})

\* step 6 of do_transaction: propagation has quiesced, detachObservers runs
DetachObservers ==
    /\ ~crashed
    /\ ~finalized
    /\ \A w \in Workers : qpc[w] = "call"
    /\ registry' = UnregisterAll(registry, DetachList)
    /\ unregCalls' = [o \in Observers |-> unregCalls[o] + UnregisterCalls(DetachList, o)]
    /\ finalized' = TRUE
    /\ UNCHANGED <<qpc, detachedObserversPtr, vecState, vecItems, vref, qcalls, qobs,
                   queued, crashed>>

DetIdle ==
    /\ qpc = <<>>
    /\ detachedObserversPtr = 0
    /\ vecState = <<>>
    /\ vecItems = <<>>
    /\ vref = <<>>
    /\ qcalls = <<>>
    /\ qobs = <<>>
    /\ queued = {}
    /\ crashed = FALSE
    /\ registry = {}
    /\ unregCalls = <<>>
    /\ finalized = FALSE

\* the first turn of a domain is executing; no observer has been queued on it
DetachInit ==
    /\ pc = <<"exec">>
    /\ seqMutex = 0
    /\ tail = 1
    /\ isMergeable = <<FALSE>>
    /\ successor = <<0>>
    /\ merged = << <<>> >>
    /\ blocked = <<FALSE>>
    /\ callerBlocked = <<FALSE>>
    /\ idx = <<0>>
    /\ flags = <<FALSE>>
    /\ budget = 0
    /\ nAdmit = 1
    /\ nExec = 1
    /\ ticket = <<1>>
    /\ startNo = <<1>>
    /\ pred = <<0>>
    /\ runs = <<0>>
    /\ ranLog = << <<>> >>
    /\ SrcIdle
    /\ qpc = [w \in Workers |-> "call"]
    /\ detachedObserversPtr = 0
    /\ vecState = [v \in VecIds |-> "none"]
    /\ vecItems = [v \in VecIds |-> <<>>]
    /\ vref = [w \in Workers |-> 0]
    /\ qcalls = [w \in Workers |-> 0]
    /\ qobs = [w \in Workers |-> "o1"]
    /\ queued = {}
    /\ crashed = FALSE
    /\ registry = Observers
    /\ unregCalls = [o \in Observers |-> 0]
    /\ finalized = FALSE
    /\ IdIdle
    /\ SnIdle
    /\ GrIdle
    /\ EnIdle
    /\ OpIdle

DetachNext ==
    \/ \E w \in Workers, o \in Observers : QCheck(w, o) /\ UNCHANGED exceptDetVars
    \/ \E w \in Workers : QAlloc(w) /\ UNCHANGED exceptDetVars
    \/ \E w \in Workers : QLoad(w) /\ UNCHANGED exceptDetVars
    \/ \E w \in Workers : QPush(w) /\ UNCHANGED exceptDetVars
    \/ \E w \in Workers : QPushFreed(w) /\ UNCHANGED exceptDetVars
    \/ DetachObservers /\ UNCHANGED exceptDetVars

DetachSpec == DetachInit /\ [][DetachNext]_vars

\* ------------------------------------------------- the turn manager under load
InitOn(T, n) ==
    /\ pc = [t \in T |-> "idle"]
    /\ seqMutex = 0
    /\ tail = 0
    /\ isMergeable = [t \in T |-> FALSE]
    /\ successor = [t \in T |-> 0]
    /\ merged = [t \in T |-> <<>>]
    /\ blocked = [t \in T |-> FALSE]
    /\ callerBlocked = [t \in T |-> FALSE]
    /\ idx = [t \in T |-> 0]
    /\ flags = [t \in T |-> FALSE]
    /\ budget = n
    /\ nAdmit = 0
    /\ nExec = 0
    /\ ticket = [t \in T |-> 0]
    /\ startNo = [t \in T |-> 0]
    /\ pred = [t \in T |-> 0]
    /\ runs = [t \in T |-> 0]
    /\ ranLog = [t \in T |-> <<>>]

Init == InitOn(1..NumThreads, MaxOps) /\ SrcIdle /\ DetIdle /\ IdIdle /\ SnIdle /\ GrIdle /\ EnIdle /\ OpIdle

Next ==
    \/ \E t \in Thr, fl \in BOOLEAN : BeginSync(t, fl) /\ UNCHANGED otherVars
    \/ \E t \in Thr, fl \in BOOLEAN : BeginAsync(t, fl) /\ UNCHANGED otherVars
    \/ \E t \in Thr : TryMerge(t) /\ UNCHANGED otherVars
    \/ \E t \in Thr : TryMergeWait(t) /\ UNCHANGED otherVars
    \/ \E t \in Thr : StartTurn(t) /\ UNCHANGED otherVars
    \/ \E t \in Thr : StartTurnWait(t) /\ UNCHANGED otherVars
    \/ \E t \in Thr : UserClosure(t) /\ UNCHANGED otherVars
    \/ \E t \in Thr : RunMergedInputs(t) /\ UNCHANGED otherVars
    \/ \E t \in Thr : EndTurnLock(t) /\ UNCHANGED otherVars
    \/ \E t \in Thr : UnblockSuccessors(t) /\ UNCHANGED otherVars
    \/ \E t \in Thr : EndTurnTail(t) /\ UNCHANGED otherVars

Spec == Init /\ [][Next]_vars

\* Scheduling: every thread that can take a step of its own eventually takes
\* it (WF); tbb::queuing_mutex hands seqMutex_ out in request order, so a
\* thread that asks for it gets it although others take it in between (SF).
\* Nothing obliges a thread to begin a transaction.  An executing turn goes on
\* to EndTurn.
\* a step of thread t that needs seqMutex_
LockStep(t) ==
    /\ TryMerge(t) \/ StartTurn(t) \/ EndTurnLock(t)
    /\ UNCHANGED otherVars

\* a step of thread t that needs no lock (at most one is enabled at a time)
OwnStep(t) ==
    /\ \/ TryMergeWait(t)
       \/ StartTurnWait(t)
       \/ UserClosure(t)
       \/ RunMergedInputs(t)
       \/ UnblockSuccessors(t)
       \/ EndTurnTail(t)
    /\ UNCHANGED otherVars

\* every step of a thread moves its pc or idx, so a step that changes tmVars is
\* any step of the action
Fairness == \A t \in 1..NumFairThreads : SF_tmVars(LockStep(t)) /\ WF_tmVars(OwnStep(t))

FairInit == InitOn(1..NumFairThreads, MaxFairOps) /\ SrcIdle /\ DetIdle /\ IdIdle /\ SnIdle /\ GrIdle /\ EnIdle /\ OpIdle

FairSpec == FairInit /\ [][Next]_vars /\ Fairness

\* ------------------------------------------------- turn ids
\* do_transaction, step 1: the turn is allocated with the domain's next id
\* (TurnBase(id, flags)); step 2 is StartTurn.  Several threads do this at once.
IdInit ==
    /\ InitOn(1..NumThreads, MaxOps)
    /\ SrcIdle
    /\ DetIdle
    /\ SnIdle
    /\ GrIdle
    /\ EnIdle
    /\ OpIdle
    /\ nextTurnId = 1
    /\ turnIdOf = [t \in 1..NumThreads |-> 0]
    /\ execLog = <<>>

\* TurnT turn(nextTurnId(), flags)
AllocateTurn(t, fl) ==
    /\ BeginSync(t, fl)
    /\ turnIdOf' = [turnIdOf EXCEPT ![t] = nextTurnId]
    /\ nextTurnId' = nextTurnId + 1
    /\ UNCHANGED execLog

\* StartTurn returns: the turn with id Id() executes from here on
TurnExecutes(t) ==
    /\ StartTurnWait(t)
    /\ execLog' = Append(execLog, turnIdOf[t])
    /\ UNCHANGED <<nextTurnId, turnIdOf>>

IdNext ==
    \/ \E t \in Thr, fl \in BOOLEAN : AllocateTurn(t, fl) /\ UNCHANGED exceptIdVars
    \/ \E t \in Thr : StartTurn(t) /\ UNCHANGED otherVars
    \/ \E t \in Thr : TurnExecutes(t) /\ UNCHANGED exceptIdVars
    \/ \E t \in Thr : UserClosure(t) /\ UNCHANGED otherVars
    \/ \E t \in Thr : RunMergedInputs(t) /\ UNCHANGED otherVars
    \/ \E t \in Thr : EndTurnLock(t) /\ UNCHANGED otherVars
    \/ \E t \in Thr : UnblockSuccessors(t) /\ UNCHANGED otherVars
    \/ \E t \in Thr : EndTurnTail(t) /\ UNCHANGED otherVars

IdSpec == IdInit /\ [][IdNext]_vars

\* ------------------------------------------------- one EventSourceNode over several turns
\* In each turn closures stage values with AddInput and the domain calls
\* ApplyInput (any number of either, in any order); then the turn propagates
\* and nodes that depend on the source read it through SetCurrentTurn(turn).
\* Turn ids are all different but need not come in increasing order.
Vals == {1, 2}

SourceInit ==
    /\ InitOn(1..1, 0)
    /\ SrcIdle
    /\ DetIdle
    /\ IdIdle
    /\ GrIdle
    /\ EnIdle
    /\ OpIdle
    /\ sn = FreshNode
    /\ snTurn \in 1..MaxTurns
    /\ snUsed = {snTurn}
    /\ snPhase = "input"
    /\ snCalls = 0
    /\ sinceApply = <<>>
    /\ lastCall = [op |-> "none", result |-> FALSE, before |-> FreshNode, pending |-> <<>>]

\* a closure of the turn calls AddInput(v)
SnAddInput(v) ==
    /\ snPhase = "input"
    /\ snCalls < MaxCalls
    /\ sn' = AddInput(sn, v)
    /\ sinceApply' = Append(sinceApply, v)
    /\ snCalls' = snCalls + 1
    /\ lastCall' = [op |-> "add", result |-> FALSE, before |-> sn, pending |-> sinceApply]
    /\ UNCHANGED <<snTurn, snUsed, snPhase>>

\* the domain calls ApplyInput(turn)
SnApplyInput ==
    /\ snPhase = "input"
    /\ snCalls < MaxCalls
    /\ sn' = ApplyInput(sn, snTurn)
    /\ sinceApply' = IF ApplyInputResult(sn) THEN <<>> ELSE sinceApply
    /\ snCalls' = snCalls + 1
    /\ lastCall' = [op |-> "apply", result |-> ApplyInputResult(sn), before |-> sn,
                    pending |-> sinceApply]
    /\ UNCHANGED <<snTurn, snUsed, snPhase>>

\* the turn propagates once every staged input has been applied
SnPropagate ==
    /\ snPhase = "input"
    /\ sinceApply = <<>>
    /\ snPhase' = "propagate"
    /\ UNCHANGED <<sn, snTurn, snUsed, snCalls, sinceApply, lastCall>>

\* a node that depends on the source collects from it: depPtr->SetCurrentTurn(turn)
SnRead ==
    /\ snPhase = "propagate"
    /\ sn' = SetCurrentTurn(sn, snTurn, FALSE, FALSE)
    /\ sn' # sn
    /\ lastCall' = [op |-> "read", result |-> FALSE, before |-> sn, pending |-> sinceApply]
    /\ UNCHANGED <<snTurn, snUsed, snPhase, snCalls, sinceApply>>

\* the turn ends and another one, with an id not used before, begins
SnNextTurn ==
    /\ snPhase = "propagate"
    /\ \E id \in (1..MaxTurns) \ snUsed :
          /\ snTurn' = id
          /\ snUsed' = snUsed \cup {id}
    /\ snPhase' = "input"
    /\ snCalls' = 0
    /\ lastCall' = [op |-> "turn", result |-> FALSE, before |-> sn, pending |-> sinceApply]
    /\ UNCHANGED <<sn, sinceApply>>

SourceNext ==
    \/ \E v \in Vals : SnAddInput(v) /\ UNCHANGED exceptSnVars
    \/ SnApplyInput /\ UNCHANGED exceptSnVars
    \/ SnPropagate /\ UNCHANGED exceptSnVars
    \/ SnRead /\ UNCHANGED exceptSnVars
    \/ SnNextTurn /\ UNCHANGED exceptSnVars

SourceSpec == SourceInit /\ [][SourceNext]_vars

\* ------------------------------------------------- the input-merge scenario
\* Thread 1 runs a transaction; while its turn executes, the other threads
\* each submit one async transaction with input merging enabled.  The prior
\* turn stays in flight until every submitter has been admitted or merged.
Prior == 1
Submitters == 2..(NumSubmitters + 1)

ScenarioInit == InitOn(1..(NumSubmitters + 1), NumSubmitters + 1) /\ SrcIdle /\ DetIdle /\ IdIdle /\ SnIdle /\ GrIdle /\ EnIdle /\ OpIdle

PriorBegins == \E fl \in BOOLEAN : BeginSync(Prior, fl)

SubmitterBegins(t) == Executing(Prior) /\ BeginAsync(t, TRUE)

PriorEnds ==
    /\ budget = 0
    /\ \A t \in Submitters : pc[t] \in {"st_wait", "tm_wait"}
    /\ EndTurnLock(Prior)

ScenarioNext ==
    \/ PriorBegins /\ UNCHANGED otherVars
    \/ \E t \in Submitters : SubmitterBegins(t) /\ UNCHANGED otherVars
    \/ PriorEnds /\ UNCHANGED otherVars
    \/ \E t \in Submitters : EndTurnLock(t) /\ UNCHANGED otherVars
    \/ \E t \in Thr : TryMerge(t) /\ UNCHANGED otherVars
    \/ \E t \in Thr : TryMergeWait(t) /\ UNCHANGED otherVars
    \/ \E t \in Thr : StartTurn(t) /\ UNCHANGED otherVars
    \/ \E t \in Thr : StartTurnWait(t) /\ UNCHANGED otherVars
    \/ \E t \in Thr : UserClosure(t) /\ UNCHANGED otherVars
    \/ \E t \in Thr : RunMergedInputs(t) /\ UNCHANGED otherVars
    \/ \E t \in Thr : UnblockSuccessors(t) /\ UNCHANGED otherVars
    \/ \E t \in Thr : EndTurnTail(t) /\ UNCHANGED otherVars

ScenarioSpec == ScenarioInit /\ [][ScenarioNext]_vars

\* ------------------------------------------------- closures merged into a turn
\* The turn of MergeOwner has passed StartTurn behind an earlier turn, k callers
\* merged their closures into it while it was blocked (threads 2..k+1, numbered
\* in the order they merged), the earlier turn has ended and the owner's thread
\* is about to run the turn; the turn is followed until its inputs are applied.  Every closure stages events
\* with AddInput; refNodes follows the same sources for a turn whose one user
\* closure makes all of these calls itself.
MergeOwner == 1
MergeThreads == 1..(MaxClosures + 2)

\* the sources a closure may stage on, call by call: up to MaxAdds calls
Targets == UNION {[1..n -> Sources] : n \in 0..MaxAdds}

\* the AddInput calls of the closure of thread c that stages on the sources q,
\* each call with a value of its own
Body(c, q) == [i \in 1..Len(q) |-> [src |-> q[i], val |-> 10 * c + i]]

RECURSIVE Calls(_)
\* the calls of the closures fs, one closure after the other
Calls(fs) == IF fs = <<>> THEN <<>> ELSE body[Head(fs)] \o Calls(Tail(fs))

\* step 5 of do_transaction: ApplyInput on the inputs staged in the turn, in the
\* order they were staged
RECURSIVE ApplyInputs(_, _, _)
ApplyInputs(ns, calls, id) ==
    IF calls = <<>> THEN ns
    ELSE ApplyInputs([ns EXCEPT ![Head(calls).src] = ApplyInput(@, id)], Tail(calls), id)

\* the one user closure that makes the owner's calls and then every merged
\* closure's calls, in the order the closures were merged
OneClosure ==
    body[MergeOwner]
    \o Calls([i \in 1..Len(merged[MergeOwner]) |-> merged[MergeOwner][i].func])

MergeEqInit ==
    \E k \in 1..MaxClosures :
        /\ pc = [t \in MergeThreads |->
                    IF t = MergeOwner THEN "exec"
                    ELSE IF t \in 2..(k + 1) THEN "tm_wait" ELSE "idle"]
        /\ seqMutex = 0
        /\ tail = MergeOwner
        /\ isMergeable = [t \in MergeThreads |-> t = MergeOwner]
        /\ successor = [t \in MergeThreads |-> 0]
        /\ merged = [t \in MergeThreads |->
                        IF t = MergeOwner
                        THEN [i \in 1..k |-> [func |-> i + 1, caller |-> i + 1]]
                        ELSE <<>>]
        /\ blocked = [t \in MergeThreads |-> FALSE]
        /\ callerBlocked = [t \in MergeThreads |-> t \in 2..(k + 1)]
        /\ idx = [t \in MergeThreads |-> 0]
        /\ flags = [t \in MergeThreads |-> FALSE]
        /\ budget = 0
        /\ nAdmit = 2
        /\ nExec = 2
        /\ ticket = [t \in MergeThreads |-> IF t = MergeOwner THEN 2 ELSE 0]
        /\ startNo = [t \in MergeThreads |-> IF t = MergeOwner THEN 2 ELSE 0]
        /\ pred = [t \in MergeThreads |-> IF t = MergeOwner THEN MaxClosures + 2 ELSE 0]
        /\ runs = [t \in MergeThreads |-> 0]
        /\ ranLog = [t \in MergeThreads |-> <<>>]
        /\ \E qs \in [1..(k + 1) -> Targets] :
              body = [t \in MergeThreads |-> IF t \in 1..(k + 1) THEN Body(t, qs[t]) ELSE <<>>]
        /\ turnId = 2
        /\ nodes \in [Sources -> {FreshNode, UsedNode(1)}]
        /\ refNodes = nodes
        /\ applied = FALSE
        /\ DetIdle
        /\ IdIdle
        /\ SnIdle
        /\ GrIdle
        /\ EnIdle
        /\ OpIdle

\* step 3: the owner's closure runs
OwnerClosure ==
    /\ UserClosure(MergeOwner)
    /\ nodes' = RunClosure(nodes, body[MergeOwner])
    /\ refNodes' = RunClosure(refNodes, OneClosure)
    /\ UNCHANGED <<body, turnId, applied, exceptSrcVars>>

\* step 4: RunMergedInputs runs the next merged closure
MergedClosure ==
    /\ RunMergedInputs(MergeOwner)
    /\ nodes' = IF idx[MergeOwner] <= Len(MergedFuncs(MergeOwner))
                THEN RunClosure(nodes, body[MergedFuncs(MergeOwner)[idx[MergeOwner]]])
                ELSE nodes
    /\ UNCHANGED <<body, refNodes, turnId, applied, exceptSrcVars>>

\* step 5: the staged inputs are applied
Propagate ==
    /\ pc[MergeOwner] = "end"
    /\ ~applied
    /\ applied' = TRUE
    /\ nodes' = ApplyInputs(nodes, body[MergeOwner] \o Calls(ranLog[MergeOwner]), turnId)
    /\ refNodes' = ApplyInputs(refNodes, OneClosure, turnId)
    /\ UNCHANGED <<tmVars, histVars, body, turnId, exceptSrcVars>>

MergeEqNext ==
    \/ OwnerClosure
    \/ MergedClosure
    \/ Propagate

MergeEqSpec == MergeEqInit /\ [][MergeEqNext]_vars

\* ------------------------------------------------- fused ops and the nodes they replace
\* Each graph has the sources a and b, a node x whose op is a tree of ops over
\* the sources (the nested ops are not nodes), and the same tree built from one
\* node per op, ending in the node y.
Shapes == {"filter_merge", "transform_merge", "merge_ops", "merge_merge",
           "filter_transform", "transform_filter"}

\* the op each node of the graph holds
OpsOf(sh) ==
    CASE sh = "filter_merge" ->
            [x |-> FilterOp(MergeOp(<<NodeDep("a"), NodeDep("b")>>)),
             m |-> MergeOp(<<NodeDep("a"), NodeDep("b")>>),
             y |-> FilterOp(NodeDep("m"))]
      [] sh = "transform_merge" ->
            [x |-> TransformOp(MergeOp(<<NodeDep("a"), NodeDep("b")>>)),
             m |-> MergeOp(<<NodeDep("a"), NodeDep("b")>>),
             y |-> TransformOp(NodeDep("m"))]
      [] sh = "merge_ops" ->
            [x |-> MergeOp(<<TransformOp(NodeDep("a")), FilterOp(NodeDep("b"))>>),
             m |-> TransformOp(NodeDep("a")),
             n |-> FilterOp(NodeDep("b")),
             y |-> MergeOp(<<NodeDep("m"), NodeDep("n")>>)]
      [] sh = "merge_merge" ->
            [x |-> MergeOp(<<MergeOp(<<NodeDep("b"), NodeDep("a")>>), NodeDep("a")>>),
             m |-> MergeOp(<<NodeDep("b"), NodeDep("a")>>),
             y |-> MergeOp(<<NodeDep("m"), NodeDep("a")>>)]
      [] sh = "filter_transform" ->
            [x |-> FilterOp(TransformOp(NodeDep("a"))),
             m |-> TransformOp(NodeDep("a")),
             y |-> FilterOp(NodeDep("m"))]
      [] sh = "transform_filter" ->
            [x |-> TransformOp(FilterOp(NodeDep("a"))),
             m |-> FilterOp(NodeDep("a")),
             y |-> TransformOp(NodeDep("m"))]
      [] sh = "fanout" ->
            [p |-> FilterOp(NodeDep("a")),
             q |-> MergeOp(<<NodeDep("a"), NodeDep("p")>>),
             s |-> TransformOp(NodeDep("p")),
             t |-> TransformOp(NodeDep("b")),
             r |-> MergeOp(<<NodeDep("q"), NodeDep("t")>>)]

Ops == OpsOf(shape)
OpNodes == DOMAIN Ops

\* the nodes the op of n reads
DepsOf(n) == {Leaves(Ops[n])[i] : i \in 1..Len(Leaves(Ops[n]))}

\* the sources n depends on, directly or through other nodes
RECURSIVE SourcesOf(_)
SourcesOf(n) == IF n \in Sources THEN {n} ELSE UNION {SourcesOf(d) : d \in DepsOf(n)}

\* the events the closures of one turn stage on a source
InputSeqs == {<<>>, <<2>>, <<1, 2>>}

\* the AddInput calls that stage the events evs on the source s
AddCalls(s, evs) == [i \in 1..Len(evs) |-> [src |-> s, val |-> evs[i]]]

TickInit ==
    /\ InitOn(1..1, 0)
    /\ SrcIdle
    /\ DetIdle
    /\ IdIdle
    /\ SnIdle
    /\ EnIdle
    /\ OpIdle
    /\ shape \in Shapes
    /\ gn = [k \in Sources \cup OpNodes |-> FreshNode]
    /\ gTurn = 1
    /\ gPhase = "input"
    /\ changed = {}
    /\ ticked = {}
    /\ lastTick = NoTick

\* the closures of the turn stage events on the sources, then the domain calls
\* ApplyInput on the sources that were staged
GrStage(ia, ib) ==
    /\ gPhase = "input"
    /\ gn' = ApplyInputs(RunClosure(gn, AddCalls("a", ia) \o AddCalls("b", ib)),
                         AddCalls("a", ia) \o AddCalls("b", ib), gTurn)
    /\ changed' = {s \in Sources : (IF s = "a" THEN ia ELSE ib) # <<>>}
    /\ gPhase' = "propagate"
    /\ UNCHANGED <<shape, gTurn, ticked, lastTick>>

\* the engine ticks the node n: some source it depends on has changed, and the
\* nodes it reads have been ticked
GrTick(n) ==
    /\ gPhase = "propagate"
    /\ SourcesOf(n) \cap changed # {}
    /\ (DepsOf(n) \ Sources) \subseteq ticked
    /\ LET r == Tick(n, Ops[n], gTurn, gn) IN
          /\ gn' = r.ns
          /\ lastTick' = [node |-> n, report |-> r.report, collected |-> r.collected,
                          reads |-> r.reads, again |-> n \in ticked, before |-> gn]
    /\ ticked' = ticked \cup {n}
    /\ UNCHANGED <<shape, gTurn, gPhase, changed>>

\* the turn ends and the next one begins
GrNextTurn ==
    /\ gPhase = "propagate"
    /\ gTurn < MaxGraphTurns
    /\ gTurn' = gTurn + 1
    /\ gPhase' = "input"
    /\ changed' = {}
    /\ ticked' = {}
    /\ lastTick' = NoTick
    /\ UNCHANGED <<shape, gn>>

TickNext ==
    \/ \E ia, ib \in InputSeqs : GrStage(ia, ib) /\ UNCHANGED exceptGrVars
    \/ \E n \in OpNodes : GrTick(n) /\ UNCHANGED exceptGrVars
    \/ GrNextTurn /\ UNCHANGED exceptGrVars

TickSpec == TickInit /\ [][TickNext]_vars

\* ------------------------------------------------- the propagation engines
\* One domain runs a sequence of turns over the graph "fanout" with one of the
\* four engines.  The engines schedule the Ticks; what a Tick does is the
\* node's business.
Engines == {"toposort_seq", "toposort_par", "pulsecount", "subtree"}

\* the events the closures of one turn stage on a source of the engine's graph
EngineInputs == {<<>>, <<1>>, <<2>>, <<1, 2>>}

\* the nodes whose op reads n
Successors(n) == {k \in OpNodes : n \in DepsOf(k)}

\* level(n) = 1 + max predecessor level, 0 for an input node
RECURSIVE Level(_)
Level(n) ==
    IF n \in Sources THEN 0
    ELSE LET ls == {Level(d) : d \in DepsOf(n)}
         IN  1 + (CHOOSE x \in ls : \A y \in ls : y <= x)

\* the nodes of S at the lowest level in S
MinLevelNodes(S) == {n \in S : \A k \in S : Level(n) <= Level(k)}

\* the nodes reachable from the inputs ch that changed in the turn
DirtyOf(ch) == {n \in OpNodes : SourcesOf(n) \cap ch # {}}
Dirty == DirtyOf(changed)

RECURSIVE SetToSeq(_)
SetToSeq(S) == IF S = {} THEN <<>> ELSE LET x == CHOOSE y \in S : TRUE IN <<x>> \o SetToSeq(S \ {x})

\* mutant: the mark phase counts a successor once, when it is first entered
RECURSIVE Mark_PerNode(_, _, _)
Mark_PerNode(todo, marked, cnt) ==
    IF todo = <<>> THEN cnt
    ELSE LET succs == Successors(Head(todo))
             new == succs \ marked
         IN  Mark_PerNode(SetToSeq(new) \o Tail(todo), marked \cup new,
                          [n \in OpNodes |-> cnt[n] + (IF n \in new THEN 1 ELSE 0)])

\* pulse-count mark phase: depth-first from the nodes in todo; every traversed
\* edge increments the successor's pending_count, a successor is entered once
RECURSIVE Mark(_, _, _)
Mark(todo, marked, cnt) ==
    IF todo = <<>> THEN cnt
    ELSE LET succs == Successors(Head(todo))
             new == succs \ marked
         IN  Mark(SetToSeq(new) \o Tail(todo), marked \cup new,
                  [n \in OpNodes |-> cnt[n] + (IF n \in succs THEN 1 ELSE 0)])

\* subtree engine: unresolved_predecessor_count over the dirty subtree
SubtreeCounts(ch) ==
    [n \in OpNodes |-> IF n \in DirtyOf(ch)
                       THEN Cardinality({d \in DepsOf(n) : d \in ch \/ d \in DirtyOf(ch)})
                       ELSE 0]

\* the successors of the reporting nodes rs whose count reaches zero when every
\* node of rs has decremented it
Decremented(cnt, rs) ==
    [n \in OpNodes |-> cnt[n] - Cardinality({u \in rs : n \in Successors(u)})]
Dispatched(cnt, rs) ==
    {n \in OpNodes : /\ \E u \in rs : n \in Successors(u)
                     /\ Decremented(cnt, rs)[n] = 0}

\* sequential toposort as a function: tick the queued node of lowest level,
\* insert the successors of a pulsing node, until the queue is empty
RECURSIVE TopoRun(_, _, _, _)
TopoRun(ns, q, turn, ps) ==
    IF q = {} THEN [ns |-> ns, pulsed |-> ps]
    ELSE LET n == CHOOSE k \in MinLevelNodes(q) : TRUE
             r == Tick(n, Ops[n], turn, ns)
         IN  TopoRun(r.ns,
                     (q \ {n}) \cup (IF r.report = "pulse" THEN Successors(n) ELSE {}),
                     turn,
                     IF r.report = "pulse" THEN ps \cup {n} ELSE ps)

\* the sources as the closures of the turn and ApplyInput leave them
StagedNodes(ns, ia, ib, turn) ==
    ApplyInputs(RunClosure(ns, AddCalls("a", ia) \o AddCalls("b", ib)),
                AddCalls("a", ia) \o AddCalls("b", ib), turn)

EngineInit ==
    /\ InitOn(1..1, 0)
    /\ SrcIdle
    /\ DetIdle
    /\ IdIdle
    /\ SnIdle
    /\ OpIdle
    /\ shape = "fanout"
    /\ gn = [k \in Sources \cup OpNodes |-> FreshNode]
    /\ gTurn = 1
    /\ gPhase = "input"
    /\ changed = {}
    /\ ticked = {}
    /\ lastTick = NoTick
    /\ engine \in Engines
    /\ queue = {}
    /\ batch = {}
    /\ pending = [n \in OpNodes |-> 0]
    /\ ready = {}
    /\ tickLog = <<>>
    /\ pulsed = {}
    /\ refGn = gn
    /\ refPulsed = {}
    /\ produced = [k \in Sources \cup OpNodes |-> <<>>]

\* the turn's closures stage their events and the domain applies the inputs;
\* pulse-count and subtree then compute their counters
EnStage(ia, ib) ==
    /\ gPhase = "input"
    /\ gn' = StagedNodes(gn, ia, ib, gTurn)
    /\ LET ch == {s \in Sources : (IF s = "a" THEN ia ELSE ib) # <<>>}
           ref == TopoRun(StagedNodes(refGn, ia, ib, gTurn),
                          UNION {Successors(s) : s \in ch}, gTurn, {})
       IN  /\ changed' = ch
           /\ pending' = CASE engine = "pulsecount" ->
                                Mark(SetToSeq(ch), {}, [n \in OpNodes |-> 0])
                           [] engine = "subtree" -> SubtreeCounts(ch)
                           [] OTHER -> pending
           /\ refGn' = ref.ns
           /\ refPulsed' = ref.pulsed
    /\ produced' = [k \in DOMAIN gn |-> IF k = "a" THEN ia ELSE IF k = "b" THEN ib ELSE <<>>]
    /\ gPhase' = "marked"
    /\ UNCHANGED <<shape, gTurn, ticked, lastTick, engine, queue, batch, ready, tickLog, pulsed>>

\* the changed input nodes report to the engine
EnInputsPulse ==
    /\ gPhase = "marked"
    /\ gPhase' = "propagate"
    /\ IF engine \in {"toposort_seq", "toposort_par"}
       THEN /\ queue' = UNION {Successors(s) : s \in changed}
            /\ UNCHANGED <<pending, ready>>
       ELSE /\ pending' = Decremented(pending, changed)
            /\ ready' = Dispatched(pending, changed)
            /\ UNCHANGED queue
    /\ UNCHANGED <<shape, gn, gTurn, changed, ticked, lastTick, engine, batch, tickLog,
                   pulsed, refGn, refPulsed, produced>>

\* parallel toposort: the nodes at the lowest queued level form the next batch,
\* once the batch before it has completed
EnTakeBatch ==
    /\ gPhase = "propagate"
    /\ engine = "toposort_par"
    /\ batch = {}
    /\ queue # {}
    /\ batch' = MinLevelNodes(queue)
    /\ queue' = queue \ MinLevelNodes(queue)
    /\ UNCHANGED <<grVars, engine, pending, ready, tickLog, pulsed, refGn, refPulsed,
                   produced>>

\* the engine ticks n and handles what the Tick reports
EnTick(n) ==
    /\ gPhase = "propagate"
    /\ CASE engine = "toposort_seq" -> n \in MinLevelNodes(queue)
         [] engine = "toposort_par" -> n \in batch
         [] OTHER -> n \in ready
    /\ LET r == Tick(n, Ops[n], gTurn, gn) IN
          /\ gn' = r.ns
          /\ produced' = [produced EXCEPT ![n] = r.collected]
          /\ lastTick' = [node |-> n, report |-> r.report, collected |-> r.collected,
                          reads |-> r.reads, again |-> n \in ticked, before |-> gn]
          /\ pulsed' = IF r.report = "pulse" THEN pulsed \cup {n} ELSE pulsed
          /\ IF engine \in {"toposort_seq", "toposort_par"}
             THEN /\ queue' = (queue \ {n}) \cup
                                (IF r.report = "pulse" THEN Successors(n) ELSE {})
                  /\ batch' = batch \ {n}
                  /\ UNCHANGED <<pending, ready>>
             ELSE /\ pending' = IF r.report \in {"pulse", "idle"}
                                THEN Decremented(pending, {n}) ELSE pending
                  /\ ready' = (ready \ {n}) \cup
                                (IF r.report \in {"pulse", "idle"}
                                 THEN Dispatched(pending, {n}) ELSE {})
                  /\ UNCHANGED <<queue, batch>>
    /\ tickLog' = Append(tickLog, n)
    /\ ticked' = ticked \cup {n}
    /\ UNCHANGED <<shape, gTurn, gPhase, changed, engine, refGn, refPulsed>>

\* nothing is scheduled any more: the propagation of the turn is over
EnEndTurn ==
    /\ gPhase = "propagate"
    /\ queue = {}
    /\ batch = {}
    /\ ready = {}
    /\ gPhase' = "done"
    /\ UNCHANGED <<shape, gn, gTurn, changed, ticked, lastTick, enVars>>

\* the next turn begins
EnNextTurn ==
    /\ gPhase = "done"
    /\ gTurn < MaxEngineTurns
    /\ gTurn' = gTurn + 1
    /\ gPhase' = "input"
    /\ changed' = {}
    /\ ticked' = {}
    /\ pending' = [n \in OpNodes |-> 0]
    /\ tickLog' = <<>>
    /\ pulsed' = {}
    /\ refPulsed' = {}
    /\ produced' = [k \in DOMAIN gn |-> <<>>]
    /\ lastTick' = NoTick
    /\ UNCHANGED <<shape, gn, engine, queue, batch, ready, refGn>>

EngineNext ==
    \/ \E ia, ib \in EngineInputs : EnStage(ia, ib) /\ UNCHANGED exceptEnVars
    \/ EnInputsPulse /\ UNCHANGED exceptEnVars
    \/ EnTakeBatch /\ UNCHANGED exceptEnVars
    \/ \E n \in OpNodes : EnTick(n) /\ UNCHANGED exceptEnVars
    \/ EnEndTurn /\ UNCHANGED exceptEnVars
    \/ EnNextTurn /\ UNCHANGED exceptEnVars

EngineSpec == EngineInit /\ [][EngineNext]_vars

\* ------------------------------------------------- EventOpNode: construction, StealOp, destruction
\* Op nodes over the sources are created, have their op stolen (when a node
\* built from a temporary is fused into another one) and are destroyed.
OpNodeIds == 1..NumOpNodes

Unborn == [life |-> "unborn", wasOpStolen |-> FALSE, links |-> {}, detaches |-> 0]

\* EventOpNode(args): wasOpStolen_ = false, op_.Attach<D>(*this) attaches the
\* node to every dependency of the op
Constructed == [life |-> "alive", wasOpStolen |-> FALSE, links |-> Sources, detaches |-> 0]

\* op_.Detach<D>(*this): the node is detached from every dependency of the op
OpDetach(nd) == [nd EXCEPT !.links = {}, !.detaches = @ + 1]

\* StealOp(): REACT_ASSERT(wasOpStolen_ == false) holds
StealOp(nd) == OpDetach([nd EXCEPT !.wasOpStolen = TRUE])

\* mutant: the destructor detaches the op whether it was stolen or not
Destructor_AlwaysDetach(nd) == [OpDetach(nd) EXCEPT !.life = "dead"]

\* ~EventOpNode(): if (!wasOpStolen_) op_.Detach<D>(*this)
Destructor(nd) ==
    [(IF ~nd.wasOpStolen THEN OpDetach(nd) ELSE nd) EXCEPT !.life = "dead"]

NoOp == [op |-> "none", node |-> 0, stolenBefore |-> FALSE]

LifeInit ==
    /\ InitOn(1..1, 0)
    /\ SrcIdle
    /\ DetIdle
    /\ IdIdle
    /\ SnIdle
    /\ GrIdle
    /\ EnIdle
    /\ opLife = [nodes |-> [n \in OpNodeIds |-> Unborn], failed |-> FALSE, last |-> NoOp]

\* a node is constructed
OpConstruct(n) ==
    /\ ~opLife.failed
    /\ opLife.nodes[n].life = "unborn"
    /\ opLife' = [opLife EXCEPT !.nodes[n] = Constructed,
                                !.last = [op |-> "construct", node |-> n, stolenBefore |-> FALSE]]

\* StealOp() is called on a live node; the assertion fails if the op was
\* stolen before
OpStealOp(n) ==
    /\ ~opLife.failed
    /\ opLife.nodes[n].life = "alive"
    /\ opLife' = IF opLife.nodes[n].wasOpStolen
                 THEN [opLife EXCEPT !.failed = TRUE,
                                     !.last = [op |-> "steal", node |-> n, stolenBefore |-> TRUE]]
                 ELSE [opLife EXCEPT !.nodes[n] = StealOp(@),
                                     !.last = [op |-> "steal", node |-> n, stolenBefore |-> FALSE]]

\* the last reference to a live node goes away
OpDestroy(n) ==
    /\ ~opLife.failed
    /\ opLife.nodes[n].life = "alive"
    /\ opLife' = [opLife EXCEPT !.nodes[n] = Destructor(@),
                                !.last = [op |-> "destroy", node |-> n,
                                          stolenBefore |-> opLife.nodes[n].wasOpStolen]]

LifeNext ==
    \/ \E n \in OpNodeIds : OpConstruct(n) /\ UNCHANGED exceptOpVars
    \/ \E n \in OpNodeIds : OpStealOp(n) /\ UNCHANGED exceptOpVars
    \/ \E n \in OpNodeIds : OpDestroy(n) /\ UNCHANGED exceptOpVars

LifeSpec == LifeInit /\ [][LifeNext]_vars

\* ========================================================== claims
\* C1: mutual exclusion of turns.  At most one turn is executing at any time,
\* a turn executing from the return of its StartTurn until its EndTurn is
\* called.
MutualExclusion == Cardinality({t \in Thr : Executing(t)}) <= 1

\* C1 witness: one turn executes while two later turns are admitted and blocked
MutualExclusionWitness ==
    \E t, u, v \in Thr :
        /\ Cardinality({t, u, v}) = 3
        /\ Executing(t)
        /\ pc[u] = "st_wait" /\ blocked[u]
        /\ pc[v] = "st_wait" /\ blocked[v]

\* C2: FIFO turn order.  (a) Turns begin executing in the order of their
\* admission (the order of the StartTurn critical sections).  (b) A turn
\* admitted while another turn was the tail is that tail's successor, and is
\* blocked in StartTurn for as long as that predecessor has not called
\* EndTurn.  (c) A turn admitted when there was no tail is never blocked.
FifoOrder ==
    /\ \A t \in Thr : pc[t] \in ExecPcs \cup EndPcs => startNo[t] = ticket[t]
    /\ \A t \in Thr :
         (pc[t] \in WaitPcs \cup ExecPcs \cup EndPcs /\ pred[t] # 0
            /\ pc[pred[t]] \in WaitPcs \cup ExecPcs
            /\ ticket[pred[t]] < ticket[t])
         => /\ successor[pred[t]] = t
            /\ pc[t] = "st_wait"
            /\ blocked[t]
    /\ \A t \in Thr : (pc[t] = "st_wait" /\ pred[t] = 0) => ~blocked[t]

\* C2 witness: the third admitted turn executes as the third, its predecessor
\* gone, and a fourth turn waits behind it
FifoOrderWitness ==
    \E t, u \in Thr :
        /\ pc[t] = "exec" /\ pred[t] # 0 /\ ticket[t] = 3 /\ startNo[t] = 3
        /\ pc[u] = "st_wait" /\ pred[u] = t /\ blocked[u]

\* C3: merge admission.  The TryMerge critical section merges (and the call
\* will return true) exactly when a tail exists, the tail was created with
\* the merging flag and the tail's block condition is still set.  Otherwise
\* it stores no closure, leaves the caller unblocked and the caller goes on
\* without waiting.
MergeAdmission ==
    [][\A t \in Thr :
         (pc[t] = "try" /\ pc'[t] # "try") =>
           LET ok == tail # 0 /\ isMergeable[tail] /\ blocked[tail] IN
           /\ (pc'[t] = "tm_wait") <=> ok
           /\ ok => /\ merged'[tail] = Append(merged[tail], [func |-> t, caller |-> t])
                    /\ callerBlocked'[t]
           /\ ~ok => /\ \A p \in Thr : \A i \in 1..Len(merged'[p]) : merged'[p][i].func # t
                     /\ \A p \in Thr \ {t} : merged'[p] = merged[p]
                     /\ ~callerBlocked'[t]
                     /\ pc'[t] = "start"]_vars

\* C3 witness: one caller merged into a blocked mergeable tail while another
\* caller, refused by an earlier tail, waits with a turn of its own
MergeAdmissionWitness ==
    \E t, u, v \in Thr :
        /\ pc[t] = "tm_wait" /\ callerBlocked[t]
        /\ pc[u] = "st_wait" /\ blocked[u] /\ isMergeable[u]
        /\ Len(merged[u]) = 1 /\ merged[u][1].caller = t
        /\ v # u /\ pc[v] \in ExecPcs /\ ~isMergeable[v] /\ successor[v] = u

\* C4: a merged caller waits for the end of the turn.  While the turn a
\* closure was merged into has not called EndTurn, the thread that merged it
\* is still waiting inside TryMerge; and when that thread has been woken, its
\* closure has been run (the owner runs RunMergedInputs between StartTurn and
\* EndTurn).
MergedCallerWaits ==
    /\ \A p \in Thr :
         pc[p] \in WaitPcs \cup ExecPcs =>
           \A i \in 1..Len(merged[p]) :
              /\ pc[merged[p][i].caller] = "tm_wait"
              /\ callerBlocked[merged[p][i].caller]
    /\ \A t \in Thr : (pc[t] = "tm_wait" /\ ~callerBlocked[t]) => runs[t] = 1

\* C4 witness: a merged caller has been woken by the EndTurn of its target,
\* which is still inside EndTurn, and its closure has run
MergedCallerWaitsWitness ==
    \E t, p \in Thr :
        /\ pc[t] = "tm_wait" /\ ~callerBlocked[t] /\ runs[t] = 1
        /\ pc[p] \in EndPcs
        /\ \E i \in 1..Len(merged[p]) : merged[p][i].caller = t

\* C5: no merged input is lost or run twice.  The merge list of a turn does
\* not change once the turn executes, and when RunMergedInputs has returned
\* it has run the merged closures, each once, in merge order.
NoMergedInputLost ==
    /\ [](\A p \in Thr :
            /\ pc[p] \in {"end"} \cup EndPcs =>
                 ranLog[p] = [i \in 1..Len(merged[p]) |-> merged[p][i].func]
            /\ pc[p] = "end" =>
                 \A i \in 1..Len(merged[p]) : runs[merged[p][i].func] = 1)
    /\ [][\A p \in Thr : pc[p] \in ExecPcs => merged'[p] = merged[p]]_vars

\* C5 witness: RunMergedInputs has returned in a turn that two threads merged into
NoMergedInputLostWitness ==
    \E p \in Thr :
        /\ pc[p] = "end"
        /\ Len(merged[p]) = 2
        /\ merged[p][1].func # merged[p][2].func
        /\ ranLog[p] = <<merged[p][1].func, merged[p][2].func>>

\* C6: EndTurn's wake-up order.  EndTurn runs under seqMutex_; as long as a
\* caller merged into the ending turn is still blocked, the turn's successor
\* is still blocked; and EndTurn leaves tail_ empty exactly when the ended
\* turn was the tail, and unchanged otherwise.
WakeOrder ==
    /\ [](\A p \in Thr :
            /\ pc[p] \in EndPcs => seqMutex = p
            /\ (pc[p] \in WaitPcs \cup ExecPcs \cup EndPcs /\ successor[p] # 0
                  /\ \E i \in 1..Len(merged[p]) :
                        /\ pc[merged[p][i].caller] = "tm_wait"
                        /\ callerBlocked[merged[p][i].caller])
               => blocked[successor[p]])
    /\ [][\A t \in Thr :
            (pc[t] = "et_tail" /\ pc'[t] # "et_tail") =>
               tail' = (IF tail = t THEN 0 ELSE tail)]_vars

\* C6 witness: inside EndTurn every merged caller is awake and the successor
\* turn is not yet
WakeOrderWitness ==
    \E p \in Thr :
        /\ pc[p] = "et_unblock"
        /\ Len(merged[p]) >= 1
        /\ \A i \in 1..Len(merged[p]) : ~callerBlocked[merged[p][i].caller]
        /\ successor[p] # 0 /\ blocked[successor[p]]
        /\ tail # p

\* C7: progress.  Under fair scheduling every thread blocked in StartTurn
\* comes to execute its turn, and every thread blocked in a successful
\* TryMerge returns.
Progress ==
    \A t \in 1..NumFairThreads :
        /\ (pc[t] = "st_wait") ~> (pc[t] = "exec")
        /\ (pc[t] = "tm_wait") ~> (pc[t] = "idle")

\* C7 witness: a turn's predecessor has ended between the turn's admission and
\* its wait (the turn was appended, and is unblocked before WaitForUnblock is
\* passed), while another thread is blocked in a successful TryMerge
ProgressWitness ==
    \E t, u \in Thr :
        /\ pc[t] = "st_wait" /\ pred[t] # 0 /\ ~blocked[t]
        /\ pc[u] = "tm_wait" /\ callerBlocked[u]

\* C8: the input-merge scenario.  When every transaction has returned,
\* exactly one follow-up turn has been created (two admissions: the prior
\* turn and the follow-up), and a follow-up turn that has run its closures
\* has run all of the submitted ones: its own and the merged ones.
MergeScenarioOneTurn ==
    /\ (budget = 0 /\ \A t \in Thr : pc[t] = "idle") => nAdmit = 2
    /\ \A t \in Submitters :
         pc[t] = "end" => runs[t] + Len(ranLog[t]) = NumSubmitters

\* a source on which some closure of the turn staged an event
Staged(s) == \E c \in DOMAIN body : \E i \in DOMAIN body[c] : body[c][i].src = s

\* C9: once the turn's inputs are applied, every source node is in the state it
\* would be in had one user closure of the turn made the same AddInput calls in
\* the same order: same events, same changed flag, same turn stamp; and each
\* source reported an input change once if it was staged, never otherwise
MergeEquivalence ==
    applied =>
        /\ nodes = refNodes
        /\ \A s \in Sources : nodes[s].reports = (IF Staged(s) THEN 1 ELSE 0)

\* two merged closures staged on one source that an earlier turn had left changed
MergeEquivalenceWitness ==
    /\ applied
    /\ Len(ranLog[MergeOwner]) = MaxClosures
    /\ \E s \in Sources :
          /\ \A c \in 2..(MaxClosures + 1) : \E i \in DOMAIN body[c] : body[c][i].src = s
          /\ nodes[s].curTurnId = turnId
          /\ nodes[s].events[1] # 0
          /\ Len(nodes[s].events) >= MaxClosures

\* C10: QueueForDetach is a thread-safe append: whatever the interleaving of the
\* workers' calls, every observer whose call has returned is in the turn's
\* detach list
DetachNoneLost ==
    ~crashed => \A o \in queued : \E i \in 1..Len(DetachList) : DetachList[i] = o

\* C11: when the turn has been finalized, Unregister has been called exactly once
\* on every observer passed to QueueForDetach during the turn, also on one
\* queued more than once, and never on an observer that was not queued
DetachExactlyOnce ==
    (finalized /\ ~crashed) =>
        \A o \in Observers : unregCalls[o] = (IF o \in queued THEN 1 ELSE 0)

\* C12: no observer leaves the registry before the turn is finalized, whatever
\* was queued for detach; once the turn is finalized no queued observer is
\* registered any more
DeferredDetach ==
    ~crashed =>
        /\ ~finalized => registry = Observers
        /\ finalized => queued \cap registry = {}

\* C13: the turns of concurrent do_transaction calls execute in strictly
\* increasing id order
TurnIdOrder ==
    \A i, j \in 1..Len(execLog) : i < j => execLog[i] < execLog[j]

\* C17: ApplyInput returns true exactly when AddInput has been called since it
\* last returned true; then it stamps the node with the turn's id, keeps the
\* events and reports one input change; otherwise it changes nothing
ApplyInputContract ==
    lastCall.op = "apply" =>
        /\ lastCall.result = (lastCall.pending # <<>>)
        /\ lastCall.result =>
              /\ sn.curTurnId = snTurn
              /\ sn.events = lastCall.before.events
              /\ sn.changedFlag
              /\ sn.reports = lastCall.before.reports + 1
        /\ ~lastCall.result => sn = lastCall.before

\* ApplyInput in a later turn, with the applied events of an earlier turn still
\* in the node and no AddInput since: it returned false
ApplyInputContractWitness ==
    /\ lastCall.op = "apply"
    /\ ~lastCall.result
    /\ lastCall.before.events # <<>>
    /\ lastCall.before.curTurnId # snTurn

\* C18: the events a successful ApplyInput publishes are the values given to
\* AddInput since the previous successful ApplyInput, in call order; the first
\* AddInput after a successful ApplyInput leaves only its own value in the node
StagedEventsPublished ==
    /\ (lastCall.op = "apply" /\ lastCall.result) => sn.events = lastCall.pending
    /\ lastCall.op = "add" => sn.events = sinceApply

\* a later turn published two values while the node still held an earlier
\* turn's events when the first of them was staged
StagedEventsPublishedWitness ==
    /\ lastCall.op = "apply"
    /\ lastCall.result
    /\ Len(lastCall.pending) >= 2
    /\ sn.reports >= 2


\* C19: every Tick of an EventOpNode reports exactly one of OnNodePulse and
\* OnNodeIdlePulse, the pulse if and only if the events it collected are not
\* empty, and when it returns the node's events are the events collected in
\* this Tick and no others, also when the node is ticked again in the same turn
TickReportsOnce ==
    lastTick.node # "none" =>
        /\ lastTick.report \in {"pulse", "idle"}
        /\ lastTick.report = "pulse" <=> lastTick.collected # <<>>
        /\ gn[lastTick.node].events = lastTick.collected
        /\ gn[lastTick.node].curTurnId = gTurn

\* a node that pulsed is ticked again in its turn
TickReportsOnceWitness ==
    /\ lastTick.again
    /\ lastTick.report = "pulse"
    /\ lastTick.before[lastTick.node].events # <<>>
    /\ lastTick.before[lastTick.node].curTurnId = gTurn

\* Events() of a node as a reader in the turn finds them after SetCurrentTurn
CurEvents(nd, turn) == IF nd.curTurnId = turn THEN nd.events ELSE <<>>

\* the current-turn events of the nodes deps, one node after the other
RECURSIVE ConcatCur(_, _, _)
ConcatCur(deps, ns, turn) ==
    IF deps = <<>> THEN <<>>
    ELSE CurEvents(ns[Head(deps).node], turn) \o ConcatCur(Tail(deps), ns, turn)

\* the merge nodes whose dependencies are all nodes
NodeMerges ==
    {n \in OpNodes : /\ Ops[n].kind = "merge"
                     /\ \A i \in 1..Len(Ops[n].deps) : Ops[n].deps[i].kind = "node"}

\* C20: EventMergeOp::Collect delivers the concatenation of its dependencies'
\* current-turn event lists, in the order the dependencies were declared and
\* each list in its own order, nothing dropped and nothing twice; a dependency
\* without events in the current turn contributes nothing
MergeConcatenation ==
    lastTick.node \in NodeMerges =>
        lastTick.collected = ConcatCur(Ops[lastTick.node].deps, lastTick.before, gTurn)

\* a merge collected events while one of its dependencies still held the
\* events of an earlier turn
MergeConcatenationWitness ==
    /\ lastTick.node \in NodeMerges
    /\ Len(lastTick.collected) >= 2
    /\ \E d \in DepsOf(lastTick.node) :
          /\ lastTick.before[d].events # <<>>
          /\ lastTick.before[d].curTurnId # gTurn

\* how often k occurs in the sequence q
Count(q, k) == Cardinality({i \in 1..Len(q) : q[i] = k})

\* C16: the node x, whose op nests other ops, ends its Tick with the same
\* events in the same order as the node y at the end of a chain of nodes that
\* hold one op each; and a Tick reads the events of each dependency of the
\* node's op once
FusedEquivalence ==
    /\ {"x", "y"} \subseteq ticked => gn["x"].events = gn["y"].events
    /\ lastTick.node # "none" =>
          \A k \in DOMAIN gn : lastTick.reads[k] = Count(Leaves(Ops[lastTick.node]), k)

\* y has been ticked and then x, which held other events from an earlier turn,
\* and only one of the two sources was staged in this turn
FusedEquivalenceWitness ==
    /\ {"x", "y"} \subseteq ticked
    /\ lastTick.node = "x"
    /\ Len(gn["x"].events) >= 2
    /\ Cardinality(changed) = 1
    /\ lastTick.before["x"].curTurnId # gTurn
    /\ lastTick.before["x"].events # <<>>
    /\ lastTick.before["x"].events # gn["x"].events

\* the predecessors of n that report to the engine in this turn and have not
\* done so yet: the changed inputs until they have pulsed, the dirty nodes
\* until they have been ticked
Unreported(n) ==
    {u \in DepsOf(n) : \/ u \in changed /\ gPhase = "marked"
                       \/ u \in Dirty /\ u \notin ticked}

\* C14: in the pulse-count engine a node's pending count after the mark phase
\* is the number of its predecessors that will report in the turn and every
\* report, pulse or idle pulse, takes one off; a node is ticked only after
\* every predecessor reachable from a changed input has been ticked; so in
\* the fan-out a -> p, {a, p} -> q the node q is ticked once in a turn that
\* changes a, and it collects the events p has for this turn
PulseCountGlitchFree ==
    (engine = "pulsecount" /\ gPhase \in {"marked", "propagate", "done"}) =>
        /\ \A n \in OpNodes : pending[n] = Cardinality(Unreported(n))
        /\ \A i \in 1..Len(tickLog) : \A u \in DepsOf(tickLog[i]) \cap Dirty :
               \E j \in 1..(i - 1) : tickLog[j] = u
        /\ \A n \in OpNodes : Count(tickLog, n) <= 1
        /\ (gPhase = "done" /\ "a" \in changed) =>
               /\ Count(tickLog, "q") = 1
               /\ gn["p"].curTurnId = gTurn
               /\ gn["q"].events = gn["a"].events \o gn["p"].events

\* a later turn of the pulse-count engine changed a, p reported an idle pulse
\* and q pulsed
PulseCountGlitchFreeWitness ==
    /\ engine = "pulsecount"
    /\ gPhase = "done"
    /\ gTurn > 1
    /\ "a" \in changed
    /\ "p" \in ticked \ pulsed
    /\ "q" \in pulsed

\* C15: whatever the engine, at the end of every turn every node holds for the
\* turn the events it holds under sequential toposort, and the same nodes have
\* pulsed (their observers fired)
EngineEquivalence ==
    gPhase = "done" =>
        /\ \A n \in DOMAIN gn : CurEvents(gn[n], gTurn) = CurEvents(refGn[n], gTurn)
        /\ pulsed = refPulsed

\* a turn in which the engine ticked a node that sequential toposort leaves
\* alone, after a turn that left events in the nodes
EngineEquivalenceWitness ==
    /\ gPhase = "done"
    /\ gTurn > 1
    /\ pulsed # {}
    /\ \E n \in ticked : /\ refGn[n].curTurnId # gTurn
                         /\ refGn[n].events # <<>>

\* C21: over the lifetime of an EventOpNode the dependencies of its op are
\* detached exactly once: by StealOp if the op is stolen, else by the
\* destructor, never by both and never by neither; a second StealOp on the
\* same node fails its assertion
OpDetachedOnce ==
    /\ \A n \in OpNodeIds :
          LET nd == opLife.nodes[n] IN
          /\ nd.life = "alive" => nd.detaches = (IF nd.wasOpStolen THEN 1 ELSE 0)
          /\ nd.life = "dead" => nd.detaches = 1
          /\ nd.links = (IF nd.life = "alive" /\ ~nd.wasOpStolen THEN Sources ELSE {})
    /\ opLife.last.op = "steal" => (opLife.failed <=> opLife.last.stolenBefore)
    /\ opLife.failed => opLife.last.op = "steal"

\* a node whose op was stolen has been destroyed and a node whose op was not
\* stolen has been destroyed
OpDetachedOnceWitness ==
    /\ opLife.last.op = "destroy"
    /\ opLife.last.stolenBefore
    /\ \E n \in OpNodeIds : opLife.nodes[n].life = "dead" /\ ~opLife.nodes[n].wasOpStolen

\* a turn that StartTurn has admitted and whose EndTurn has not completed
Live(t) == pc[t] \in WaitPcs \cup ExecPcs \cup EndPcs

\* C22: tail_ is null exactly when no turn has been started without being
\* ended; otherwise it is the turn admitted last, whose EndTurn has not
\* completed; and no successor_ of such a turn refers to a turn that has ended
TailValid ==
    /\ tail = 0 <=> \A t \in Thr : ~Live(t)
    /\ tail # 0 => Live(tail) /\ ticket[tail] = nAdmit
    /\ \A t \in Thr : (Live(t) /\ successor[t] # 0) => Live(successor[t])

\* the turn before the tail has ended and left tail_ alone; the tail executes
TailValidWitness ==
    /\ tail # 0
    /\ pc[tail] \in ExecPcs
    /\ pred[tail] # 0
    /\ pc[pred[tail]] = "idle"
    /\ nAdmit >= 3

\* the nodes some Tick of the turn has read
ReadInTurn == UNION {DepsOf(n) : n \in ticked}

\* C23: a reader that calls SetCurrentTurn(T) on a dependency and then reads
\* Events() in turn T sees exactly the events the dependency produced in T, by
\* its Tick or by AddInput and ApplyInput: what an earlier turn left is cleared
\* on the first access in T, a further SetCurrentTurn(T) clears nothing, and
\* every reader of the turn sees the same list
EventIsolation ==
    gPhase \in {"propagate", "done"} =>
        /\ \A d \in DOMAIN gn :
               SetCurrentTurn(gn[d], gTurn, FALSE, FALSE).events = produced[d]
        /\ \A d \in ReadInTurn :
               /\ gn[d].curTurnId = gTurn
               /\ gn[d].events = produced[d]
               /\ SetCurrentTurn(gn[d], gTurn, FALSE, FALSE) = gn[d]
        /\ lastTick.node # "none" =>
               \A d \in DepsOf(lastTick.node) :
                   gn[d].events = CurEvents(lastTick.before[d], gTurn)

\* the Tick of r was the first to read q in a turn that did not tick q and
\* cleared what q held from an earlier turn, while it collected from t
EventIsolationWitness ==
    /\ gPhase = "propagate"
    /\ lastTick.node = "r"
    /\ "q" \notin ticked
    /\ lastTick.before["q"].events # <<>>
    /\ lastTick.before["q"].curTurnId # gTurn
    /\ gn["q"].events = <<>>
    /\ gn["t"].events # <<>>
====
